---- MODULE Spec2Model ----
(***************************************************************************)
(* Model of the Mobyt exporter (src/mobyt.go): one collection cycle per    *)
(* scrape.  Collect logs in (LoadMobytIdSessionMap), then                  *)
(* HitMobytRestApisAndUpdateMetrics fetches and decodes the credit report  *)
(* and the one-hour SMS history, sending each sample on the metric channel.*)
(*                                                                         *)
(* A cycle blocks only on its three HTTP calls, so a cycle's steps are:    *)
(* Scrape (login request issued), LoginReply, CreditReply, HistoryReply,   *)
(* and Return (the snapshot has been handed to the scrape caller).         *)
(*                                                                         *)
(* Strings are sequences of one-character strings.  JSON documents are     *)
(* records naming the members the Go structs can see; an optional member   *)
(* is a sequence of length 0 (absent) or 1 (present).                      *)
(***************************************************************************)
EXTENDS Integers, Sequences, FiniteSets, TLC

VARIABLES
    proc,     \* "running" | "exited": the exporter process
    fatal,    \* <<>> or <<[by, why]>>: the cycle and the cause that ended the process
    pc,       \* pc[p]: position of scrape p's collection cycle
    auth,     \* auth[p]: mobytIdSessionKey held by Collect, <<>> before login
    ch,       \* ch[p]: the samples the cycle has sent on its metric channel
    calls,    \* calls[p]: the upstream requests the cycle has issued, in order
    resp,     \* resp[p]: the upstream replies the cycle has consumed, in order
    cycles,   \* number of collection cycles started so far
    failed,   \* number of cycles that ended Failed so far
    now,      \* the wall clock: seconds since 1970-01-01 00:00:00 UTC
    hostOffset, \* seconds east of UTC of the host's local time zone
    began,    \* began[p]: the instant Collect of the cycle was called, 0 when idle
    from,     \* from[p]: the from= parameter of the cycle's smshistory request
    open      \* number of response bodies opened and not closed

vars == <<proc, fatal, pc, auth, ch, calls, resp, cycles, failed,
          now, hostOffset, began, from, open>>

-----------------------------------------------------------------------------
(* Bounds of the model. *)

MaxCycles == 3
MaxFields == 3
MaxMoney == 1
MaxQuantity == 1
MaxTotal == 1
MaxWait == 2

-----------------------------------------------------------------------------
(* Strings. *)

Sep == ";"

RECURSIVE SplitAcc(_, _, _, _)
SplitAcc(s, sep, cur, acc) ==
    IF s = <<>> THEN Append(acc, cur)
    ELSE IF Head(s) = sep
         THEN SplitAcc(Tail(s), sep, <<>>, Append(acc, cur))
         ELSE SplitAcc(Tail(s), sep, Append(cur, Head(s)), acc)

\* strings.Split(s, sep) for a one-character separator: the fields between
\* the separators, empty fields included; a string without separator (the
\* empty string too) is its own single field.
Split(s, sep) == SplitAcc(s, sep, <<>>, <<>>)

RECURSIVE Join(_, _)
Join(fields, sep) ==
    IF Len(fields) = 0 THEN <<>>
    ELSE IF Len(fields) = 1 THEN fields[1]
    ELSE fields[1] \o <<sep>> \o Join(Tail(fields), sep)

\* The separator-free texts a login body is made of.
Tokens == {<<>>, <<"a">>, <<"b">>}

\* Login bodies: one to MaxFields tokens joined by the separator.
LoginBodies ==
    UNION {{Join(f, Sep) : f \in [1..n -> Tokens]} : n \in 1..MaxFields}

-----------------------------------------------------------------------------
(* Time: package time as the cycle uses it. *)

\* time.Hour, in seconds.
Hour == 3600

Day == 24 * Hour

\* Days since 1970-01-01 of the civil date y-m-d (proleptic Gregorian).
DaysFromCivil(y, m, d) ==
    LET yy  == IF m <= 2 THEN y - 1 ELSE y
        era == yy \div 400
        yoe == yy - era * 400
        mp  == IF m > 2 THEN m - 3 ELSE m + 9
        doy == (153 * mp + 2) \div 5 + d - 1
        doe == yoe * 365 + yoe \div 4 - yoe \div 100 + doy
    IN  era * 146097 + doe - 719468

\* The civil date of day z since 1970-01-01.
CivilFromDays(z) ==
    LET zz  == z + 719468
        era == zz \div 146097
        doe == zz - era * 146097
        yoe == (doe - doe \div 1460 + doe \div 36524 - doe \div 146096) \div 365
        doy == doe - (365 * yoe + yoe \div 4 - yoe \div 100)
        mp  == (5 * doy + 2) \div 153
        d   == doy - (153 * mp + 2) \div 5 + 1
        m   == IF mp < 10 THEN mp + 3 ELSE mp - 9
        y   == yoe + era * 400
    IN  [year |-> IF m <= 2 THEN y + 1 ELSE y, month |-> m, day |-> d]

\* The instant 01:00:00 UTC of the last Sunday of month m (31 days) of year
\* y.  1970-01-01 was a Thursday.
LastSunday1amUTC(y, m) ==
    LET d31 == DaysFromCivil(y, m, 31) IN
    (d31 - ((d31 + 4) % 7)) * Day + Hour

\* Europe/Paris as the zoneinfo database has it since 1996: UTC+1, and
\* UTC+2 from the last Sunday of March to the last Sunday of October,
\* both at 01:00 UTC.
ParisOffset(sec) ==
    LET y == CivilFromDays(sec \div Day).year IN
    IF LastSunday1amUTC(y, 3) <= sec /\ sec < LastSunday1amUTC(y, 10)
    THEN 2 * Hour ELSE Hour

\* A time.Time: an instant and the location its clock fields are read in.
\* time.Now() is in the host's local zone.
TimeNow == [sec |-> now, loc |-> "Local"]

\* t.In(loc): the same instant, read in loc.  Done wrong: the location is
\* left as it was.
InIgnored(t, loc) == t

In(t, loc) == [sec |-> t.sec, loc |-> loc]

\* t.Add(d).
Add(t, d) == [sec |-> t.sec + d, loc |-> t.loc]

ZoneOffset(loc, sec) == IF loc = "Local" THEN hostOffset ELSE ParisOffset(sec)

\* t.Year(), t.Month(), t.Day(), t.Hour(), t.Minute(), t.Second().
Clock(t) ==
    LET wall == t.sec + ZoneOffset(t.loc, t.sec)
        date == CivilFromDays(wall \div Day)
        secs == wall % Day
    IN  [year |-> date.year, month |-> date.month, day |-> date.day,
         hour |-> secs \div Hour, minute |-> (secs % Hour) \div 60,
         second |-> secs % 60]

DigitChar(n) == <<"0", "1", "2", "3", "4", "5", "6", "7", "8", "9">>[n + 1]

\* fmt.Sprintf("%d", n) for n >= 0.
RECURSIVE FmtD(_)
FmtD(n) == IF n < 10 THEN <<DigitChar(n)>> ELSE Append(FmtD(n \div 10), DigitChar(n % 10))

\* fmt.Sprintf("%02d", n) for n >= 0.
Fmt02D(n) == IF n < 10 THEN <<"0">> \o FmtD(n) ELSE FmtD(n)

\* fmt.Sprintf("%d%02d%02d%02d%02d%02d", Year, Month, Day, Hour, Minute, Second).
SprintfDate(t) ==
    LET c == Clock(t) IN
    FmtD(c.year) \o Fmt02D(c.month) \o Fmt02D(c.day)
    \o Fmt02D(c.hour) \o Fmt02D(c.minute) \o Fmt02D(c.second)

\* The date HitMobytRestApisAndUpdateMetrics puts in from=: time.Now(), in
\* Europe/Paris, less one hour.
OneHourAgoDate ==
    LET current_time == TimeNow
        localtime == In(current_time, "Europe/Paris")
        one_hour_ago == Add(localtime, -1 * Hour)
    IN  SprintfDate(one_hour_ago)

-----------------------------------------------------------------------------
(* What the upstream can answer. *)

\* An HTTP exchange as client.Do and ioutil.ReadAll see it: err is "none",
\* "do" (client.Do failed: no response) or "read" (the body could not be read).
Reply(err, status, body) == [err |-> err, status |-> status, body |-> body]

Is2xx(status) == status >= 200 /\ status < 300

LoginReplies ==
    {Reply("do", 0, <<>>), Reply("read", 200, <<>>)}
    \cup {Reply("none", s, b) : s \in {200, 401}, b \in LoginBodies}

\* A status payload: a text that is no JSON at all (wellformed = FALSE), or
\* an object with an optional money number, an optional sms array of
\* {type, quantity} objects, and an optional email member that the vendor
\* documents as an object (src/mobyt.go:75-80) and that may be an array.
SmsEntry(q) == [type |-> "L", quantity |-> q]

SmsLists ==
    {<<>>}
    \cup {<<SmsEntry(q)>> : q \in 0..MaxQuantity}
    \cup {<<SmsEntry(q), SmsEntry(r)>> : q \in 0..MaxQuantity, r \in 0..MaxQuantity}

CreditBodies ==
    {[wellformed |-> FALSE, money |-> <<>>, sms |-> <<>>, email |-> "absent"]}
    \cup {[wellformed |-> TRUE, money |-> m, sms |-> l, email |-> e] :
            m \in {<<>>} \cup {<<x>> : x \in 0..MaxMoney},
            l \in {<<>>} \cup {<<x>> : x \in SmsLists},
            e \in {"absent", "object", "array"}}

\* A history payload: a text that is no JSON, or an object with the
\* optional members total, pageNumber, pageSize, result and smshistory, the
\* latter an array of orders (src/mobyt.go:22-40).
HistoryBody(total, pageNumber, pageSize, result, smshistory) ==
    [wellformed |-> TRUE, total |-> total, pageNumber |-> pageNumber,
     pageSize |-> pageSize, result |-> result, smshistory |-> smshistory]

NoHistoryJson ==
    [wellformed |-> FALSE, total |-> <<>>, pageNumber |-> <<>>,
     pageSize |-> <<>>, result |-> <<>>, smshistory |-> <<>>]

Order ==
    [order_id |-> "XYZABCQWERTY", create_time |-> "yyyyMMddHHmmss",
     schedule_time |-> "yyyyMMddHHmmss", message_type |-> "GP",
     sender |-> "MySender", num_recipients |-> 2]

Totals == {<<>>} \cup {<<x>> : x \in 0..MaxTotal}

\* The first page as documented, with any total.
HistoryBodies ==
    {NoHistoryJson}
    \cup {HistoryBody(t, <<1>>, <<10>>, <<"OK">>, << <<Order>> >>) : t \in Totals}

\* Any page.
AnyHistoryBodies ==
    {NoHistoryJson}
    \cup {HistoryBody(t, n, z, res, h) :
            t \in Totals,
            n \in {<<>>, <<1>>, <<2>>},
            z \in {<<>>, <<10>>},
            res \in {<<>>, <<"OK">>, <<"KO">>},
            h \in {<<>>, << <<>> >>, << <<Order>> >>, << <<Order, Order>> >>}}

DataReplies(bodies) ==
    {Reply("do", 0, CHOOSE b \in bodies : ~b.wellformed),
     Reply("read", 200, CHOOSE b \in bodies : ~b.wellformed)}
    \cup {Reply("none", s, b) : s \in {200, 500}, b \in bodies}

CreditReplies == DataReplies(CreditBodies)
HistoryReplies == DataReplies(HistoryBodies)
AnyHistoryReplies == DataReplies(AnyHistoryBodies)

-----------------------------------------------------------------------------
(* The pure parts of the program. *)

\* json.Unmarshal(body, &sms_credit): Money has the tag json:"money"; Sms has
\* the malformed tag `json:sms`, so encoding/json falls back to the field
\* name, which matches the key "sms" case-insensitively; Email is declared a
\* slice, so an "email" member that is an object is a type error, which
\* Unmarshal reports after filling the other fields.  A member that is
\* absent leaves the field's zero value (0, nil slice).
UnmarshalSMSCredit(body) ==
    [err   |-> ~body.wellformed \/ body.email = "object",
     Money |-> IF body.wellformed /\ body.money # <<>> THEN body.money[1] ELSE 0,
     Sms   |-> IF body.wellformed /\ body.sms # <<>> THEN body.sms[1] ELSE <<>>]

\* An element of SMSHistory.SmsHistory decoded from the order o: the tags
\* are malformed, so the keys are matched against the field names, and of
\* these only Sender matches its key ("sender"); order_id, create_time,
\* schedule_time, message_type and num_recipients match no field.
UnmarshalOrder(o) ==
    [OrderID |-> "", CreateTime |-> "", ScheduleTime |-> "", MessageType |-> "",
     Sender |-> o.sender, NumRecipient |-> ""]

\* json.Unmarshal(body, &sms_sent): the tags of SMSHistory are malformed
\* (`json:total`), so every field is matched by its name, case-insensitively:
\* Total, PageNumber, Result, PageSize, SmsHistory.  An absent member leaves
\* the zero value.
UnmarshalSMSHistory(body) ==
    LET ok == body.wellformed IN
    [err        |-> ~ok,
     Total      |-> IF ok /\ body.total # <<>> THEN body.total[1] ELSE 0,
     PageNumber |-> IF ok /\ body.pageNumber # <<>> THEN body.pageNumber[1] ELSE 0,
     Result     |-> IF ok /\ body.result # <<>> THEN body.result[1] ELSE "",
     PageSize   |-> IF ok /\ body.pageSize # <<>> THEN body.pageSize[1] ELSE 0,
     SmsHistory |-> IF ok /\ body.smshistory # <<>>
                    THEN [i \in DOMAIN body.smshistory[1] |->
                             UnmarshalOrder(body.smshistory[1][i])]
                    ELSE <<>>]

\* getSMSCredit: "fatal" is log.Fatalln, "panic" the index-out-of-range
\* panic of Sms[0] on an empty slice.
getSMSCredit(body) ==
    LET v == UnmarshalSMSCredit(body) IN
    IF v.err THEN [outcome |-> "fatal", money |-> 0, quantity |-> 0]
    ELSE IF Len(v.Sms) = 0 THEN [outcome |-> "panic", money |-> 0, quantity |-> 0]
    ELSE [outcome |-> "ok", money |-> v.Money, quantity |-> v.Sms[1].quantity]

\* getSMSLastHourSent done wrong: the error of Unmarshal is dropped and the
\* zero value returned.
getSMSLastHourSentIgnoringError(body) ==
    [outcome |-> "ok", total |-> UnmarshalSMSHistory(body).Total]

\* getSMSLastHourSent done wrong: the length of the page is returned.
getSMSLastHourSentPage(body) ==
    LET v == UnmarshalSMSHistory(body) IN
    IF v.err THEN [outcome |-> "fatal", total |-> 0]
    ELSE [outcome |-> "ok", total |-> Len(v.SmsHistory)]

\* getSMSLastHourSent.
getSMSLastHourSent(body) ==
    LET v == UnmarshalSMSHistory(body) IN
    IF v.err THEN [outcome |-> "fatal", total |-> 0]
    ELSE [outcome |-> "ok", total |-> v.Total]

\* mobytRequest after client.Do: a transport or read error is log.Fatalln;
\* otherwise the body is returned, whatever the status.
mobytRequest(r) ==
    IF r.err # "none" THEN [outcome |-> "fatal", body |-> r.body]
    ELSE [outcome |-> "ok", body |-> r.body]

\* LoadMobytIdSessionMap done wrong: the two fields are returned session key
\* first.
LoadMobytIdSessionMapReversed(r) ==
    IF r.err # "none" THEN [err |-> TRUE, informationKey |-> <<>>]
    ELSE LET informationKey == Split(r.body, Sep) IN
         IF Len(informationKey) # 2
         THEN [err |-> TRUE, informationKey |-> <<>>]
         ELSE [err |-> FALSE,
               informationKey |-> <<informationKey[2], informationKey[1]>>]

\* LoadMobytIdSessionMap after client.Do: an error of the call or of the
\* read is returned; otherwise the body is split on ";" and must have two
\* fields.  The status is not looked at.
LoadMobytIdSessionMap(r) ==
    IF r.err # "none" THEN [err |-> TRUE, informationKey |-> <<>>]
    ELSE LET informationKey == Split(r.body, Sep) IN
         IF Len(informationKey) # 2
         THEN [err |-> TRUE, informationKey |-> <<>>]
         ELSE [err |-> FALSE, informationKey |-> informationKey]

\* float64(n) of an int: exact below 2^53, which every number of the model is.
Float64(n) == n

\* prometheus.MustNewConstMetric(desc, GaugeValue, value, labels...).
Sample(desc, value, labels) == [desc |-> desc, value |-> value, labels |-> labels]

\* DataCall done wrong: the two keys land in each other's header.
DataCallSwapped(uri, a) ==
    [uri |-> uri, user_key |-> <<a[2]>>, session_key |-> <<a[1]>>, basic |-> FALSE]

\* The request mobytRequest builds: GET endpoint with the two session headers.
DataCall(uri, a) ==
    [uri |-> uri, user_key |-> <<a[1]>>, session_key |-> <<a[2]>>, basic |-> FALSE]

\* The request LoadMobytIdSessionMap builds: GET login with basic auth.
LoginCall == [uri |-> "login", user_key |-> <<>>, session_key |-> <<>>, basic |-> TRUE]

-----------------------------------------------------------------------------
(* The collection cycle. *)

\* Send done wrong: the samples go to one buffer that all cycles share.
SendShared(c, p, sample) == [q \in DOMAIN c |-> Append(c[q], sample)]

\* ch <- sample, on the channel of scrape p's own Collect call.
Send(c, p, sample) == [c EXCEPT ![p] = Append(@, sample)]

\* Exit done wrong: the error ends the cycle it occurred in and leaves the
\* process, and the other cycles, running.
ExitCycleOnly(p, why) ==
    /\ pc' = [pc EXCEPT ![p] = "Failed"]
    /\ UNCHANGED <<proc, fatal, auth, ch, calls, cycles, failed, from>>

\* Exit done wrong: the error is logged and Collect returns with what it
\* has sent so far.
ExitReturningPartial(p, why) ==
    /\ pc' = [pc EXCEPT ![p] = "Done"]
    /\ UNCHANGED <<proc, fatal, auth, ch, calls, cycles, failed, from>>

\* log.Fatalln (os.Exit(1)) and the unrecovered panic of a collector
\* goroutine: the process is gone, with every cycle where it stood.
Exit(p, why) ==
    /\ proc' = "exited"
    /\ fatal' = <<[by |-> p, why |-> why]>>
    /\ UNCHANGED <<pc, auth, ch, calls, cycles, failed, from>>

\* CollectLoginError done wrong: the login error is fatal, as the errors of
\* the data calls are.
CollectLoginErrorFatal(p) == Exit(p, "auth")

\* Collect when LoadMobytIdSessionMap returned an error: up = 0, return.
CollectLoginError(p) ==
    /\ ch' = Send(ch, p, Sample("up", 0, <<>>))
    /\ pc' = [pc EXCEPT ![p] = "Failed"]
    /\ failed' = failed + 1
    /\ UNCHANGED <<proc, fatal, auth, calls, cycles, from>>

\* CollectLoginOk done wrong: up is held back until the data calls are
\* through.
CollectLoginOkUpHeldBack(p, informationKey) ==
    /\ auth' = [auth EXCEPT ![p] = informationKey]
    /\ calls' = [calls EXCEPT ![p] = Append(@, DataCall("status", informationKey))]
    /\ pc' = [pc EXCEPT ![p] = "FetchingCredit"]
    /\ UNCHANGED <<proc, fatal, cycles, failed, from, ch>>

\* Collect when login succeeded: up = 1, then
\* HitMobytRestApisAndUpdateMetrics issues the status request.
CollectLoginOk(p, informationKey) ==
    /\ ch' = Send(ch, p, Sample("up", 1, <<>>))
    /\ auth' = [auth EXCEPT ![p] = informationKey]
    /\ calls' = [calls EXCEPT ![p] = Append(@, DataCall("status", informationKey))]
    /\ pc' = [pc EXCEPT ![p] = "FetchingCredit"]
    /\ UNCHANGED <<proc, fatal, cycles, failed, from>>

\* HitMobytRestApisAndUpdateMetrics once the credit report is decoded: the
\* credit gauge, the money gauge, then the smshistory request with the date
\* of one hour ago.
CreditDecoded(p, c) ==
    /\ ch' = Send(Send(ch, p, Sample("sms_credit", Float64(c.quantity), <<"">>)),
                  p, Sample("sms_money", c.money, <<"">>))
    /\ from' = [from EXCEPT ![p] = OneHourAgoDate]
    /\ calls' = [calls EXCEPT ![p] = Append(@, DataCall("smshistory", auth[p]))]
    /\ pc' = [pc EXCEPT ![p] = "FetchingHistory"]
    /\ UNCHANGED <<proc, fatal, auth, cycles, failed>>

\* HitMobytRestApisAndUpdateMetrics once the history is decoded: the sent
\* gauge, and Collect returns.
HistoryDecoded(p, h) ==
    /\ ch' = Send(ch, p, Sample("sms_sent", Float64(h.total), <<"">>))
    /\ pc' = [pc EXCEPT ![p] = "Done"]
    /\ UNCHANGED <<proc, fatal, auth, calls, cycles, failed, from>>

\* What client.Do and the code after it leave open: LoadMobytIdSessionMap
\* closes resp.Body right after reading it; mobytRequest never closes
\* res.Body, so each response it got stays open.
LoginLeavesOpen(r) == 0

DataLeavesOpen(r) == IF r.err = "do" THEN 0 ELSE 1

\* A scrape arrives: the registry calls Collect, which issues the login call.
Scrape(p) ==
    /\ proc = "running"
    /\ pc[p] = "Idle"
    /\ cycles < MaxCycles
    /\ cycles' = cycles + 1
    /\ pc' = [pc EXCEPT ![p] = "Authenticating"]
    /\ calls' = [calls EXCEPT ![p] = <<LoginCall>>]
    /\ began' = [began EXCEPT ![p] = now]
    /\ UNCHANGED <<proc, fatal, auth, ch, resp, failed, now, hostOffset, from, open>>

\* The login call ends with r.
LoginReply(p, r) ==
    /\ proc = "running"
    /\ pc[p] = "Authenticating"
    /\ resp' = [resp EXCEPT ![p] = Append(@, r)]
    /\ open' = open + LoginLeavesOpen(r)
    /\ UNCHANGED <<now, hostOffset, began>>
    /\ LET res == LoadMobytIdSessionMap(r) IN
       IF res.err THEN CollectLoginError(p)
       ELSE CollectLoginOk(p, res.informationKey)

\* CreditReply done wrong: a non-2xx reply is answered by asking again.
CreditReplyRetrying(p, r) ==
    /\ proc = "running"
    /\ pc[p] = "FetchingCredit"
    /\ resp' = [resp EXCEPT ![p] = Append(@, r)]
    /\ open' = open + DataLeavesOpen(r)
    /\ UNCHANGED <<now, hostOffset, began>>
    /\ LET got == mobytRequest(r) IN
       IF got.outcome # "ok" THEN Exit(p, "transport")
       ELSE IF ~Is2xx(r.status)
       THEN /\ calls' = [calls EXCEPT ![p] = Append(@, DataCall("status", auth[p]))]
            /\ UNCHANGED <<proc, fatal, pc, auth, ch, cycles, failed, from>>
       ELSE LET c == getSMSCredit(got.body) IN
            IF c.outcome = "fatal" THEN Exit(p, "decode")
            ELSE IF c.outcome = "panic" THEN Exit(p, "panic")
            ELSE CreditDecoded(p, c)

\* The status call ends with r.
CreditReply(p, r) ==
    /\ proc = "running"
    /\ pc[p] = "FetchingCredit"
    /\ resp' = [resp EXCEPT ![p] = Append(@, r)]
    /\ open' = open + DataLeavesOpen(r)
    /\ UNCHANGED <<now, hostOffset, began>>
    /\ LET got == mobytRequest(r) IN
       IF got.outcome # "ok" THEN Exit(p, "transport")
       ELSE LET c == getSMSCredit(got.body) IN
            IF c.outcome = "fatal" THEN Exit(p, "decode")
            ELSE IF c.outcome = "panic" THEN Exit(p, "panic")
            ELSE CreditDecoded(p, c)

\* The smshistory call ends with r.
HistoryReply(p, r) ==
    /\ proc = "running"
    /\ pc[p] = "FetchingHistory"
    /\ resp' = [resp EXCEPT ![p] = Append(@, r)]
    /\ open' = open + DataLeavesOpen(r)
    /\ UNCHANGED <<now, hostOffset, began>>
    /\ LET got == mobytRequest(r) IN
       IF got.outcome # "ok" THEN Exit(p, "transport")
       ELSE LET h == getSMSLastHourSent(got.body) IN
            IF h.outcome = "fatal" THEN Exit(p, "decode")
            ELSE HistoryDecoded(p, h)

\* Collect has returned and the snapshot has been served: the cycle's
\* locals (the session with them) are gone.
Return(p) ==
    /\ proc = "running"
    /\ pc[p] \in {"Done", "Failed"}
    /\ pc' = [pc EXCEPT ![p] = "Idle"]
    /\ auth' = [auth EXCEPT ![p] = <<>>]
    /\ ch' = [ch EXCEPT ![p] = <<>>]
    /\ calls' = [calls EXCEPT ![p] = <<>>]
    /\ resp' = [resp EXCEPT ![p] = <<>>]
    /\ began' = [began EXCEPT ![p] = 0]
    /\ from' = [from EXCEPT ![p] = <<>>]
    /\ UNCHANGED <<proc, fatal, cycles, failed, now, hostOffset, open>>

\* The wall clock advances by d seconds while a cycle is under way (for at
\* most MaxWait seconds of a cycle).
Tick(d) ==
    /\ proc = "running"
    /\ \E p \in DOMAIN pc :
           /\ pc[p] \in {"Authenticating", "FetchingCredit", "FetchingHistory"}
           /\ now + d - began[p] <= MaxWait
    /\ now' = now + d
    /\ UNCHANGED <<proc, fatal, pc, auth, ch, calls, resp, cycles, failed,
                   hostOffset, began, from, open>>

-----------------------------------------------------------------------------
(* Specifications. *)

InitOver(scrapes) ==
    /\ proc = "running"
    /\ fatal = <<>>
    /\ pc = [p \in scrapes |-> "Idle"]
    /\ auth = [p \in scrapes |-> <<>>]
    /\ ch = [p \in scrapes |-> <<>>]
    /\ calls = [p \in scrapes |-> <<>>]
    /\ resp = [p \in scrapes |-> <<>>]
    /\ cycles = 0
    /\ failed = 0
    /\ began = [p \in scrapes |-> 0]
    /\ from = [p \in scrapes |-> <<>>]
    /\ open = 0

\* The instant hh:mm:ss UTC of the civil date y-m-d.
Instant(y, m, d, hh, mm, ss) == DaysFromCivil(y, m, d) * Day + hh * Hour + mm * 60 + ss

\* The clock stands at 2026-11-01 10:00:00 UTC on a host that keeps UTC.
ClockStopped == now = Instant(2026, 11, 1, 10, 0, 0) /\ hostOffset = 0

\* One scrape at a time, against everything the upstream can answer.
Scrapes == {"s1"}

Init == InitOver(Scrapes) /\ ClockStopped

Next ==
    \/ \E p \in Scrapes : Scrape(p)
    \/ \E p \in Scrapes : \E r \in LoginReplies : LoginReply(p, r)
    \/ \E p \in Scrapes : \E r \in CreditReplies : CreditReply(p, r)
    \/ \E p \in Scrapes : \E r \in HistoryReplies : HistoryReply(p, r)
    \/ \E p \in Scrapes : Return(p)

Spec == Init /\ [][Next]_vars

\* Two scrapes in flight at once (promhttp serves scrapes concurrently),
\* against a selection of answers: two sessions, two credit reports, two
\* histories, and one failure of each call.
ConcScrapes == {"s1", "s2"}

ConcLoginReplies ==
    {r \in LoginReplies :
        \/ r.err = "do"
        \/ r.err = "none" /\ r.status = 200
           /\ r.body \in {<<"a">>, <<"a", ";", "b">>, <<"b", ";", "a">>}}

ConcCreditReplies ==
    {r \in CreditReplies :
        \/ r.err = "do"
        \/ r.err = "none" /\ r.status = 200 /\ ~r.body.wellformed
        \/ r.err = "none" /\ r.status = 200 /\ r.body.wellformed
           /\ r.body.email = "absent"
           /\ \/ r.body.money = <<1>> /\ r.body.sms = << <<SmsEntry(0)>> >>
              \/ r.body.money = <<0>> /\ r.body.sms = << <<SmsEntry(1), SmsEntry(0)>> >>}

ConcHistoryReplies ==
    {r \in HistoryReplies :
        r.err = "none" /\ r.status = 200 /\ (r.body.wellformed => r.body.total # <<>>)}

InitConc == InitOver(ConcScrapes) /\ ClockStopped

NextConc ==
    \/ \E p \in ConcScrapes : Scrape(p)
    \/ \E p \in ConcScrapes : \E r \in ConcLoginReplies : LoginReply(p, r)
    \/ \E p \in ConcScrapes : \E r \in ConcCreditReplies : CreditReply(p, r)
    \/ \E p \in ConcScrapes : \E r \in ConcHistoryReplies : HistoryReply(p, r)
    \/ \E p \in ConcScrapes : Return(p)

SpecConc == InitConc /\ [][NextConc]_vars

\* One scrape at a time with the clock running, on hosts west of, at and
\* east of UTC, started at instants around which the date in Europe/Paris
\* is delicate: an ordinary winter and summer time, both changes of
\* daylight saving time, the turn of the year and a leap day.
StartInstants ==
    {Instant(2026, 11, 1, 10, 0, 0),
     Instant(2026, 7, 1, 12, 30, 15),
     Instant(2026, 3, 29, 0, 59, 59),
     Instant(2026, 3, 29, 1, 59, 58),
     Instant(2026, 10, 25, 0, 59, 59),
     Instant(2026, 10, 25, 1, 59, 58),
     Instant(2026, 12, 31, 23, 59, 58),
     Instant(2024, 2, 29, 23, 59, 58)}

HostOffsets == {-5 * Hour, 0, 11 * Hour}

TickSteps == {1, 2}

InitTime ==
    /\ InitOver(Scrapes)
    /\ now \in StartInstants
    /\ hostOffset \in HostOffsets

NextTime ==
    \/ \E p \in Scrapes : Scrape(p)
    \/ \E p \in Scrapes : \E r \in ConcLoginReplies : LoginReply(p, r)
    \/ \E p \in Scrapes : \E r \in ConcCreditReplies : CreditReply(p, r)
    \/ \E p \in Scrapes : \E r \in ConcHistoryReplies : HistoryReply(p, r)
    \/ \E p \in Scrapes : Return(p)
    \/ \E d \in TickSteps : Tick(d)

SpecTime == InitTime /\ [][NextTime]_vars

\* One scrape at a time against any history page, after a selection of
\* logins and credit reports.
InitPages == InitOver(Scrapes) /\ ClockStopped

NextPages ==
    \/ \E p \in Scrapes : Scrape(p)
    \/ \E p \in Scrapes : \E r \in ConcLoginReplies : LoginReply(p, r)
    \/ \E p \in Scrapes : \E r \in ConcCreditReplies : CreditReply(p, r)
    \/ \E p \in Scrapes : \E r \in AnyHistoryReplies : HistoryReply(p, r)
    \/ \E p \in Scrapes : Return(p)

SpecPages == InitPages /\ [][NextPages]_vars

-----------------------------------------------------------------------------
(* Vocabulary of the properties. *)

Up(v) == Sample("up", v, <<>>)

\* How many samples of descriptor d the channel contents c hold.
Count(c, d) == Cardinality({i \in DOMAIN c : c[i].desc = d})

\* How many requests to uri the request log l holds.
Issued(l, uri) == Cardinality({i \in DOMAIN l : l[i].uri = uri})

\* Collect of scrape p has returned: its channel contents are the snapshot.
Returned(p) == pc[p] \in {"Done", "Failed"}

NumSep(b) == Cardinality({i \in DOMAIN b : b[i] = Sep})

\* The text before and after the only separator of b.
Before(b) == LET k == CHOOSE i \in DOMAIN b : b[i] = Sep IN SubSeq(b, 1, k - 1)
After(b) == LET k == CHOOSE i \in DOMAIN b : b[i] = Sep IN SubSeq(b, k + 1, Len(b))

\* b reads <userKey>;<sessionKey> with both keys non-empty.
TwoNonEmptyFields(b) == NumSep(b) = 1 /\ Before(b) # <<>> /\ After(b) # <<>>

\* The cycle of p has consumed the reply to its login, status, smshistory call.
GotLogin(p) == Len(resp[p]) >= 1
GotCredit(p) == Len(resp[p]) >= 2
GotHistory(p) == Len(resp[p]) >= 3

\* The login call failed as the code sees it: no response, an unreadable
\* body, or a body that does not split in two.
LoginFailed(r) == r.err # "none" \/ NumSep(r.body) # 1

\* Errors the status and the smshistory step raise: of the transport, of
\* json.Unmarshal, and the index panic on a report without sms entry.
CreditError(r) ==
    \/ r.err # "none"
    \/ ~r.body.wellformed
    \/ r.body.email = "object"
    \/ r.body.sms = <<>>
    \/ r.body.sms = << <<>> >>

HistoryError(r) == r.err # "none" \/ ~r.body.wellformed

-----------------------------------------------------------------------------
(* C1: every snapshot Collect returns holds either up = 1 together with    *)
(* exactly one sample of each of the three data gauges, or up = 0 alone.   *)
C1_SnapshotCompleteOrDown ==
    \A p \in DOMAIN pc :
        Returned(p) =>
            \/ ch[p] = <<Up(0)>>
            \/ /\ Len(ch[p]) = 4
               /\ Up(1) \in {ch[p][i] : i \in DOMAIN ch[p]}
               /\ Count(ch[p], "sms_money") = 1
               /\ Count(ch[p], "sms_credit") = 1
               /\ Count(ch[p], "sms_sent") = 1

\* A cycle has returned a complete snapshot after an earlier one returned up = 0.
C1_Witness ==
    \E p \in DOMAIN pc : pc[p] = "Done" /\ Len(ch[p]) = 4 /\ failed >= 1

(* C2: a login answered with HTTP 401 yields the single sample up = 0 and  *)
(* no status or smshistory call.                                           *)
C2_Login401OnlyUp0 ==
    \A p \in DOMAIN pc :
        (GotLogin(p) /\ resp[p][1].err = "none" /\ resp[p][1].status = 401) =>
            /\ pc[p] = "Failed"
            /\ ch[p] = <<Up(0)>>
            /\ Len(calls[p]) = 1

(* C3: the login succeeds only on a body of exactly two non-empty fields;  *)
(* on every other body it fails and no session is held.                    *)
C3_AuthNeedsTwoNonEmptyFields ==
    \A p \in DOMAIN pc :
        (GotLogin(p) /\ resp[p][1].err = "none") =>
            /\ pc[p] # "Failed" <=> TwoNonEmptyFields(resp[p][1].body)
            /\ pc[p] = "Failed" => auth[p] = <<>>

(* C4: a status or smshistory reply with a non-2xx status is an error to   *)
(* the caller of mobytRequest: its body is not decoded into gauges.        *)
C4_Non2xxNotDecoded ==
    \A p \in DOMAIN pc :
        /\ (GotCredit(p) /\ resp[p][2].err = "none" /\ ~Is2xx(resp[p][2].status)) =>
               Count(ch[p], "sms_credit") = 0 /\ Count(ch[p], "sms_money") = 0
        /\ (GotHistory(p) /\ resp[p][3].err = "none" /\ ~Is2xx(resp[p][3].status)) =>
               Count(ch[p], "sms_sent") = 0

(* C5: once logged in, every error the status or the smshistory step       *)
(* raises ends the process: the cycle returns no snapshot, and after the   *)
(* exit nothing happens any more (no cycle advances, no scrape is served). *)
C5_DataErrorsStopTheProcess ==
    \A p \in DOMAIN pc :
        \/ GotCredit(p) /\ CreditError(resp[p][2])
        \/ GotHistory(p) /\ HistoryError(resp[p][3])
        => /\ proc = "exited"
           /\ fatal # <<>> /\ fatal[1].by = p
           /\ ~Returned(p)

C5_NothingAfterExit == proc = "exited" => UNCHANGED vars

C5_DataErrorFatal == []C5_DataErrorsStopTheProcess /\ [][C5_NothingAfterExit]_vars

\* The process has exited on an undecodable history, after the credit
\* gauges of that cycle were already sent.
C5_Witness ==
    \E p \in DOMAIN pc :
        /\ GotHistory(p) /\ HistoryError(resp[p][3])
        /\ proc = "exited" /\ pc[p] = "FetchingHistory" /\ Len(ch[p]) = 3

(* C6: a failed login ends the cycle in Failed with up = 0 alone and       *)
(* leaves the process running; the snapshot can be handed over, the next   *)
(* scrape can start however many cycles failed before, and it starts from  *)
(* Idle with a new login call and nothing kept of the earlier cycle.       *)
C6_LoginFailureEndsCycleOnly ==
    \A p \in DOMAIN pc :
        /\ (GotLogin(p) /\ LoginFailed(resp[p][1])) =>
               /\ pc[p] = "Failed"
               /\ ch[p] = <<Up(0)>>
               /\ proc = "running"
               /\ ENABLED Return(p)
        /\ (pc[p] = "Idle" /\ proc = "running" /\ cycles < MaxCycles) =>
               ENABLED Scrape(p)

C6_NextCycleIsFresh ==
    \A p \in DOMAIN pc :
        (pc[p] # pc'[p] /\ pc'[p] = "Authenticating") =>
            /\ pc[p] = "Idle"
            /\ calls'[p] = <<LoginCall>>
            /\ auth'[p] = <<>> /\ ch'[p] = <<>> /\ resp'[p] = <<>>

C6_AuthFailureRecovered == []C6_LoginFailureEndsCycleOnly /\ [][C6_NextCycleIsFresh]_vars

\* A cycle has reached Done after two cycles that failed at login.
C6_Witness ==
    \E p \in DOMAIN pc : pc[p] = "Done" /\ failed >= 2 /\ proc = "running"

(* C7: the calls of a cycle are login, status, smshistory in that order,   *)
(* never two of them in flight; the status call is issued only after the   *)
(* login of this cycle succeeded, the smshistory call only after the       *)
(* status reply was fetched and decoded (its two gauges sent), and both    *)
(* carry the first login field as user_key and the second as session_key.  *)
C7_CallsSequentialWithOwnSession ==
    \A p \in DOMAIN pc :
        /\ Len(calls[p]) <= 3
        /\ \A i \in DOMAIN calls[p] :
               calls[p][i].uri = <<"login", "status", "smshistory">>[i]
        /\ Len(resp[p]) <= Len(calls[p]) /\ Len(calls[p]) <= Len(resp[p]) + 1
        /\ Len(calls[p]) >= 2 =>
               /\ GotLogin(p) /\ ~LoginFailed(resp[p][1])
               /\ Count(ch[p], "up") = 1
        /\ Len(calls[p]) >= 3 =>
               /\ GotCredit(p) /\ ~CreditError(resp[p][2])
               /\ Count(ch[p], "sms_credit") = 1 /\ Count(ch[p], "sms_money") = 1
        /\ \A i \in DOMAIN calls[p] :
               i >= 2 =>
                   /\ calls[p][i].user_key = <<Before(resp[p][1].body)>>
                   /\ calls[p][i].session_key = <<After(resp[p][1].body)>>

\* The smshistory call of a cycle is in flight with a session whose two
\* keys differ.
C7_Witness ==
    \E p \in DOMAIN pc :
        /\ pc[p] = "FetchingHistory" /\ Len(calls[p]) = 3 /\ Len(resp[p]) = 2
        /\ calls[p][3].user_key # calls[p][3].session_key

(* C8: a cycle issues its login call exactly once and the status and the   *)
(* smshistory call at most once: three calls when it reaches Done, one     *)
(* when it ends Failed, never a call for a reply already consumed; the     *)
(* session its data calls carry is the one its own login returned, and     *)
(* nothing of it is left when the cycle is over.                           *)
C8_OneAttemptFreshSession ==
    \A p \in DOMAIN pc :
        /\ pc[p] # "Idle" => Issued(calls[p], "login") = 1
        /\ pc[p] = "Idle" => calls[p] = <<>> /\ auth[p] = <<>>
        /\ Issued(calls[p], "status") <= 1
        /\ Issued(calls[p], "smshistory") <= 1
        /\ pc[p] = "Done" => Len(calls[p]) = 3 /\ Len(resp[p]) = 3
        /\ pc[p] = "Failed" => Len(calls[p]) = 1 /\ Len(resp[p]) = 1
        /\ pc[p] \in {"Authenticating", "Failed"} => auth[p] = <<>>
        /\ \A i \in DOMAIN calls[p] :
               ~calls[p][i].basic =>
                   /\ auth[p] = Split(resp[p][1].body, Sep)
                   /\ <<calls[p][i].user_key[1], calls[p][i].session_key[1]>> = auth[p]

\* A cycle is Done with three calls, after an earlier cycle that logged in
\* as well.
C8_Witness ==
    \E p \in DOMAIN pc :
        pc[p] = "Done" /\ Len(calls[p]) = 3 /\ cycles >= 2 /\ failed = 0

\* The snapshot a cycle returns when it runs alone and is given the replies rs.
Alone(rs) ==
    IF LoginFailed(rs[1]) THEN <<Up(0)>>
    ELSE <<Up(1),
           Sample("sms_credit", rs[2].body.sms[1][1].quantity, <<"">>),
           Sample("sms_money", rs[2].body.money[1], <<"">>),
           Sample("sms_sent", rs[3].body.total[1], <<"">>)>>

(* C9: with scrapes in flight at once, the data calls of each cycle carry  *)
(* the keys of its own login, and the snapshot each cycle returns is the   *)
(* one it returns alone on the replies to its own calls.                   *)
C9_ConcurrentCyclesIndependent ==
    \A p \in DOMAIN pc :
        /\ \A i \in DOMAIN calls[p] :
               i >= 2 =>
                   /\ calls[p][i].user_key = <<Before(resp[p][1].body)>>
                   /\ calls[p][i].session_key = <<After(resp[p][1].body)>>
        /\ Returned(p) => ch[p] = Alone(resp[p])

\* Two cycles are Done at once, with different sessions and different
\* snapshots.
C9_Witness ==
    \E p \in DOMAIN pc : \E q \in DOMAIN pc :
        /\ p # q /\ pc[p] = "Done" /\ pc[q] = "Done"
        /\ auth[p] # auth[q] /\ ch[p] # ch[q]

(* C10: a cycle whose login is answered 200 with a two-field body, whose   *)
(* status call is answered 200 with a JSON object holding money m and a    *)
(* non-empty sms list of first quantity q, and whose smshistory call is    *)
(* answered 200 with a JSON object holding total t, goes through and       *)
(* returns exactly up = 1, sms_money = m, sms_credit = q, sms_sent = t.    *)
HealthyLogin(r) == r.err = "none" /\ r.status = 200 /\ TwoNonEmptyFields(r.body)

HealthyCredit(r) ==
    /\ r.err = "none" /\ r.status = 200 /\ r.body.wellformed
    /\ r.body.money # <<>> /\ r.body.sms # <<>> /\ r.body.sms[1] # <<>>

HealthyHistory(r) ==
    r.err = "none" /\ r.status = 200 /\ r.body.wellformed /\ r.body.total # <<>>

C10_HealthyCycleFourSamples ==
    \A p \in DOMAIN pc :
        (GotCredit(p) /\ HealthyLogin(resp[p][1]) /\ HealthyCredit(resp[p][2])) =>
            /\ proc = "running"
            /\ pc[p] \in {"FetchingHistory", "Done"}
            /\ (GotHistory(p) /\ HealthyHistory(resp[p][3])) =>
                   /\ pc[p] = "Done"
                   /\ Len(ch[p]) = 4
                   /\ {ch[p][i] : i \in DOMAIN ch[p]} =
                          {Up(1),
                           Sample("sms_money", resp[p][2].body.money[1], <<"">>),
                           Sample("sms_credit", resp[p][2].body.sms[1][1].quantity, <<"">>),
                           Sample("sms_sent", resp[p][3].body.total[1], <<"">>)}

-----------------------------------------------------------------------------
(* Vocabulary of the date properties. *)

Digits == {"0", "1", "2", "3", "4", "5", "6", "7", "8", "9"}

DigitValue(c) == CHOOSE n \in 0..9 : DigitChar(n) = c

\* The number the digits s[i..j] write.
RECURSIVE Number(_, _, _)
Number(s, i, j) == IF j < i THEN 0 ELSE 10 * Number(s, i, j - 1) + DigitValue(s[j])

\* s is YYYYMMDDHHMMSS and reads as the wall clock of Europe/Paris at the
\* instant sec.
DenotesInParis(s, sec) ==
    /\ Len(s) = 14
    /\ \A i \in DOMAIN s : s[i] \in Digits
    /\ Number(s, 5, 6) \in 1..12 /\ Number(s, 7, 8) \in 1..31
    /\ Number(s, 9, 10) \in 0..23 /\ Number(s, 11, 12) \in 0..59
    /\ Number(s, 13, 14) \in 0..59
    /\ DaysFromCivil(Number(s, 1, 4), Number(s, 5, 6), Number(s, 7, 8)) * Day
           + Number(s, 9, 10) * Hour + Number(s, 11, 12) * 60 + Number(s, 13, 14)
       = sec + ParisOffset(sec)

(* C11: the from parameter of the smshistory call is 14 digits that read,  *)
(* in Europe/Paris and whatever the host's zone, as exactly one hour       *)
(* before the instant the cycle began.                                     *)
C11_FromIsHourBeforeCycleBegan ==
    \A p \in DOMAIN pc :
        from[p] # <<>> => DenotesInParis(from[p], began[p] - Hour)

(* C11 as amended: the from parameter is 14 digits that read, in           *)
(* Europe/Paris and whatever the host's zone, as exactly one hour before   *)
(* the instant the smshistory request is built, which is after the credit  *)
(* report was fetched and decoded, not the instant the cycle began.        *)
C11_FromWithinCycle ==
    \A p \in DOMAIN pc :
        from[p] # <<>> =>
            /\ Len(calls[p]) = 3
            /\ \E t \in began[p]..now : DenotesInParis(from[p], t - Hour)

C11_FromSetAtHistoryRequest ==
    \A p \in DOMAIN pc :
        (from'[p] # from[p] /\ from'[p] # <<>>) =>
            /\ pc[p] = "FetchingCredit" /\ pc'[p] = "FetchingHistory"
            /\ DenotesInParis(from'[p], now - Hour)

C11_FromIsHourBeforeHistoryRequest ==
    []C11_FromWithinCycle /\ [][C11_FromSetAtHistoryRequest]_vars

\* The smshistory request of a cycle is in flight, built after the clock
\* moved on from the start of the cycle, on a host that does not keep the
\* time of Paris: its date is not the one of the cycle's start.
C11_Witness ==
    \E p \in DOMAIN pc :
        /\ pc[p] = "FetchingHistory" /\ from[p] # <<>>
        /\ hostOffset = 11 * Hour
        /\ ~DenotesInParis(from[p], began[p] - Hour)
        /\ DenotesInParis(from[p], now - Hour)

-----------------------------------------------------------------------------
(* C12: getSMSCredit on a JSON object whose sms list is empty fails (the   *)
(* process ends as on malformed JSON, no gauge is sent); on a JSON object  *)
(* with money and at least one sms entry it returns the money and the      *)
(* first entry's quantity, which the credit and money gauges then carry.   *)
C12_CreditDecodeFailsOrExact ==
    \A p \in DOMAIN pc :
        (GotCredit(p) /\ resp[p][2].err = "none" /\ resp[p][2].body.wellformed) =>
            LET body == resp[p][2].body IN
            /\ body.sms = << <<>> >> =>
                   /\ proc = "exited"
                   /\ Count(ch[p], "sms_credit") = 0 /\ Count(ch[p], "sms_money") = 0
            /\ (body.money # <<>> /\ body.sms # <<>> /\ body.sms[1] # <<>>) =>
                   /\ Len(ch[p]) >= 3
                   /\ ch[p][2] = Sample("sms_credit", body.sms[1][1].quantity, <<"">>)
                   /\ ch[p][3] = Sample("sms_money", body.money[1], <<"">>)

(* C13: a decoder fails on a payload that is no JSON or lacks a required   *)
(* member (total for the history, money or the sms list for the credit     *)
(* report): the process ends and no gauge is sent from such a payload.     *)
C13_MissingMemberFails ==
    \A p \in DOMAIN pc :
        /\ (GotCredit(p) /\ resp[p][2].err = "none"
            /\ (~resp[p][2].body.wellformed \/ resp[p][2].body.money = <<>>
                \/ resp[p][2].body.sms = <<>>)) =>
               /\ proc = "exited"
               /\ Count(ch[p], "sms_credit") = 0 /\ Count(ch[p], "sms_money") = 0
        /\ (GotHistory(p) /\ resp[p][3].err = "none"
            /\ (~resp[p][3].body.wellformed \/ resp[p][3].body.total = <<>>)) =>
               /\ proc = "exited"
               /\ Count(ch[p], "sms_sent") = 0

(* C14: on a login body userKey;sessionKey with both keys non-empty, the   *)
(* login succeeds and the session held is exactly <<userKey, sessionKey>>. *)
C14_WellFormedBodyGivesBothKeys ==
    \A p \in DOMAIN pc :
        (GotLogin(p) /\ resp[p][1].err = "none"
         /\ TwoNonEmptyFields(resp[p][1].body)) =>
            /\ pc[p] # "Failed"
            /\ auth[p] = <<Before(resp[p][1].body), After(resp[p][1].body)>>
            /\ Join(auth[p], Sep) = resp[p][1].body

\* A session of two different keys is held.
C14_Witness ==
    \E p \in DOMAIN pc :
        /\ GotLogin(p) /\ resp[p][1].body = <<"a", ";", "b">>
        /\ auth[p] = << <<"a">>, <<"b">> >>

(* C15: on a history payload that is a JSON object with a total, the sent  *)
(* gauge carries that total, whatever pageNumber, pageSize, result and     *)
(* the smshistory entries are, present or not.                             *)
C15_TotalReturnedUnchanged ==
    \A p \in DOMAIN pc :
        (GotHistory(p) /\ resp[p][3].err = "none" /\ resp[p][3].body.wellformed
         /\ resp[p][3].body.total # <<>>) =>
            /\ pc[p] = "Done"
            /\ ch[p][Len(ch[p])] = Sample("sms_sent", resp[p][3].body.total[1], <<"">>)

\* A cycle is Done on the second page of a history that is not OK, holds
\* two orders and has a total of one.
C15_Witness ==
    \E p \in DOMAIN pc :
        /\ pc[p] = "Done"
        /\ resp[p][3].body = HistoryBody(<<1>>, <<2>>, <<10>>, <<"KO">>, << <<Order, Order>> >>)

(* C16: a cycle whose login call has ended has sent exactly one up sample, *)
(* as its first sample: 1 if the login succeeded, 0 if not, whatever the   *)
(* data calls do afterwards; it is on the channel before the status or the *)
(* smshistory call is issued, and nothing is sent before the login ends.   *)
C16_UpFirstFromLoginOnly ==
    \A p \in DOMAIN pc :
        /\ ~GotLogin(p) => ch[p] = <<>>
        /\ GotLogin(p) =>
               /\ Count(ch[p], "up") = 1
               /\ ch[p][1] = Up(IF LoginFailed(resp[p][1]) THEN 0 ELSE 1)
        /\ Len(calls[p]) >= 2 => Len(ch[p]) >= 1 /\ ch[p][1] = Up(1)
        /\ (pc[p] = "FetchingCredit" /\ Len(resp[p]) = 1) => ch[p] = <<Up(1)>>

\* The process has exited on the status call of a cycle whose channel
\* holds up = 1 and nothing else.
C16_Witness ==
    \E p \in DOMAIN pc :
        /\ proc = "exited" /\ GotCredit(p) /\ CreditError(resp[p][2])
        /\ ch[p] = <<Up(1)>>

\* Some cycle has consumed a reply on which its status or smshistory step
\* raises an error.
DataErrorSeen ==
    \E p \in DOMAIN pc :
        \/ GotCredit(p) /\ CreditError(resp[p][2])
        \/ GotHistory(p) /\ HistoryError(resp[p][3])

(* C17: once the status or smshistory step of one cycle has raised an      *)
(* error, no cycle that has not returned its snapshot moves any more, so   *)
(* none returns one, healthy as its own replies may be.                    *)
C17_NoReturnAfterDataError ==
    DataErrorSeen =>
        \A q \in DOMAIN pc :
            ~Returned(q) => pc'[q] = pc[q] /\ ch'[q] = ch[q] /\ ~Returned(q)'

C17_DataErrorAbortsAllCycles == [][C17_NoReturnAfterDataError]_vars

\* One cycle has ended the process while another, all of whose replies were
\* healthy, waits for its history.
C17_Witness ==
    \E p \in DOMAIN pc : \E q \in DOMAIN pc :
        /\ p # q /\ proc = "exited" /\ fatal[1].by = p
        /\ pc[q] = "FetchingHistory"
        /\ HealthyLogin(resp[q][1]) /\ HealthyCredit(resp[q][2])

(* C18: when a cycle has ended, Done or Failed, and when none is under     *)
(* way, no response body of a login, status or smshistory call is open.    *)
C18_NoOpenBodyAtCycleEnd ==
    \A p \in DOMAIN pc :
        (Returned(p) \/ pc[p] = "Idle") => open = 0

====
